---------------------------- MODULE Spec2Model ----------------------------
(***************************************************************************)
(* RVU preprints backend (src/backend/app.py): the catalog of Preprint     *)
(* rows, the blob store behind supabase.storage, and the request handlers  *)
(* upload_preprint, mint_doi and list_preprints run by concurrent workers. *)
(*                                                                         *)
(* Text values are sequences of one-character strings, so that strip(),    *)
(* lower(), replace() and LIKE are computed rather than assumed.  An       *)
(* optional form field is a set: {} when the field is absent, {v} when it  *)
(* is sent with value v.  A DOI "10.55555/rvu-preprints.<YYYY><MM>-<NNNN>" *)
(* is the pair of its year-month label and its sequence number; NoDoi is   *)
(* the NULL column value.                                                  *)
(***************************************************************************)
EXTENDS Integers, Sequences, FiniteSets, TLC

\* ------------------------------------------------------------- bounds
NumWorkers    == 2   \* request-handling contexts that can overlap
MaxRecords    == 2   \* rows the catalog may grow to
MaxTime       == 1   \* last clock tick
TicksPerMonth == 1   \* clock ticks in one calendar month

Workers == 1..NumWorkers
Times   == 0..MaxTime

VARIABLES
    now,      \* datetime.datetime.utcnow(), in ticks
    db,       \* table "preprints": sequence of committed rows, id = index
    blobs,    \* storage paths held by the bucket
    pc,       \* per worker: the handler step it is about to run
    loc,      \* per worker: the handler's local variables
    rsp,      \* the response the last step sent to a client, NoRsp if none
    listed    \* ids of the rows in the last list_preprints answer, in order

vars == <<now, db, blobs, pc, loc, rsp, listed>>

\* ------------------------------------------------------------- text helpers
Space == " "

Uncategorized == <<"u","n","c","a","t","e","g","o","r","i","z","e","d">>
PaperPdf      == <<"p","a","p","e","r",".","p","d","f">>
TrueText      == <<"t","r","u","e">>
FalseText     == <<"f","a","l","s","e">>

\* str.lower() on one character
LowerChar(c) ==
    CASE c = "A" -> "a"
      [] c = "B" -> "b"
      [] c = "C" -> "c"
      [] c = "S" -> "s"
      [] c = "T" -> "t"
      [] c = "R" -> "r"
      [] c = "U" -> "u"
      [] c = "E" -> "e"
      [] OTHER   -> c

\* str.lower()
Lower(s) == [i \in 1..Len(s) |-> LowerChar(s[i])]

\* str.strip(): drop leading and trailing whitespace
RECURSIVE LStrip(_)
LStrip(s) == IF s # <<>> /\ Head(s) = Space THEN LStrip(Tail(s)) ELSE s

RECURSIVE RStrip(_)
RStrip(s) ==
    IF s # <<>> /\ s[Len(s)] = Space THEN RStrip(SubSeq(s, 1, Len(s) - 1)) ELSE s

Strip(s) == RStrip(LStrip(s))

\* str.replace(' ', '_')
ReplaceSpaces(s) == [i \in 1..Len(s) |-> IF s[i] = Space THEN "_" ELSE s[i]]

\* request.form.get(name, default)
FormGet(field, default) == IF field = {} THEN default ELSE CHOOSE v \in field : TRUE

\* ------------------------------------------------------------- clock, DOI
Month(t) == t \div TicksPerMonth

NoDoi == [ym |-> -1, seq |-> 0]

MakeDoi(ym, n) == [ym |-> ym, seq |-> n]

Ids == 1..Len(db)

\* Preprint.query.filter(Preprint.doi.like(month_prefix + "-%")).count()
CountMonth(rows, ym) ==
    Cardinality({i \in 1..Len(rows) : rows[i].doi # NoDoi /\ rows[i].doi.ym = ym})

\* a numbering that forgets the "+ 1"
NextSeqStale(count) == count

\* format of the sequence number: count + 1
NextSeq(count) == count + 1

generate_fake_doi == MakeDoi(Month(now), NextSeq(CountMonth(db, Month(now))))

\* a doi column declared without unique=True
DoiUniqueUnchecked(d, self) == TRUE

\* UNIQUE constraint on preprints.doi: may row `self` (0 for a new row) hold d
DoiUnique(d, self) ==
    d = NoDoi \/ \A i \in Ids : i # self => db[i].doi # d

\* ------------------------------------------------------------- state
NoLoc == [title |-> <<>>, abstract |-> <<>>, category |-> <<>>,
          path |-> <<>>, file_bytes |-> 0, mint |-> FALSE, doi |-> NoDoi, pid |-> 0]

NoRsp == [op |-> "none", status |-> 0, id |-> 0, doi |-> NoDoi, error |-> ""]

\* jsonify(...), status: the body's id and doi on success
Rsp(op, status, id, doi) ==
    [op |-> op, status |-> status, id |-> id, doi |-> doi, error |-> ""]

\* an error answer: the handler's own {"error": ...} body, get_or_404's 404,
\* or the framework's 500 for an exception the handler does not catch
Err(op, status, error) ==
    [op |-> op, status |-> status, id |-> 0, doi |-> NoDoi, error |-> error]

MissingFields == "Missing required fields: title, abstract, pdf_file"
UploadError   == "Failed to upload PDF to Supabase"
IntegrityError == "IntegrityError: UNIQUE constraint failed: preprints.doi"
NotFound      == "Not Found"

Init ==
    /\ now = 0
    /\ db = <<>>
    /\ blobs = {}
    /\ pc = [w \in Workers |-> "idle"]
    /\ loc = [w \in Workers |-> NoLoc]
    /\ rsp = NoRsp
    /\ listed = <<>>

Ready(w) == pc[w] = "idle"

\* the handler returns: the worker is free for the next request
Reply(w, r) ==
    /\ pc' = [pc EXCEPT ![w] = "idle"]
    /\ loc' = [loc EXCEPT ![w] = NoLoc]
    /\ rsp' = r

\* the clock advances
Tick ==
    /\ now < MaxTime
    /\ now' = now + 1
    /\ rsp' = NoRsp
    /\ UNCHANGED <<db, blobs, pc, loc, listed>>

\* ------------------------------------------------------------- request inputs
Titles     == {{}, {<<" ">>}, {<<"T">>}}
Abstracts  == {{}, {<<"a">>}}
Categories == {{}, {<<" ">>}, {<<"C","S">>}}
MintFlags  == {{}, {<<"T","R","U","E">>}, {FalseText}}
Files      == {{},
               {[filename |-> <<>>, size |-> 1]},
               {[filename |-> <<"p"," ">>, size |-> 0]},
               {[filename |-> <<"p"," ">>, size |-> 1]}}   \* size: bytes in the part

Forms == [title : Titles, abstract : Abstracts, category : Categories,
          mint_doi : MintFlags, pdf_file : Files]

\* the submissions that differ in what minting and storage do with them: a
\* complete form with and without mint_doi, and one lacking its title
Submissions ==
    {form \in Forms :
        /\ form.abstract = {<<"a">>}
        /\ form.category = {<<"C","S">>}
        /\ form.pdf_file = {[filename |-> <<"p"," ">>, size |-> 1]}
        /\ \/ form.title = {<<"T">>} /\ form.mint_doi # {FalseText}
           \/ form.title = {} /\ form.mint_doi = {}}

Pids == 1..(MaxRecords + 1)

\* request.files.get("pdf_file") in a boolean context: a FileStorage is
\* true exactly when it has a filename
FileGiven(file) == file # {} /\ (CHOOSE f \in file : TRUE).filename # <<>>

FileOf(file) == CHOOSE f \in file : TRUE

\* the checks of "if not title or not abstract or not file"
MissingRequired(title, abstract, file) ==
    title = <<>> \/ abstract = <<>> \/ ~FileGiven(file)

\* storage_path: "preprints/<ts>_<name with spaces replaced>"
StoragePath(ts, filename) ==
    [ts |-> ts,
     name |-> ReplaceSpaces(IF filename = <<>> THEN PaperPdf ELSE filename)]

\* supabase.storage...get_public_url(storage_path)
PublicUrl(path) == path

\* rows being built by upload_preprint calls that passed validation
Uploading == {w \in Workers : pc[w] \in {"upload_store", "upload_mint", "upload_commit"}}

\* ------------------------------------------------------------- upload_preprint
\* read the form, validate, choose the storage path, read the file
UploadBegin(w, form) ==
    LET title    == Strip(FormGet(form.title, <<>>))
        abstract == Strip(FormGet(form.abstract, <<>>))
        category == Strip(FormGet(form.category, Uncategorized))
        flag     == Lower(FormGet(form.mint_doi, FalseText)) = TrueText
    IN  /\ Ready(w)
        /\ Len(db) + Cardinality(Uploading) < MaxRecords   \* room in the bounded catalog
        /\ IF MissingRequired(title, abstract, form.pdf_file)
           THEN Reply(w, Err("upload", 400, MissingFields))
           ELSE /\ pc' = [pc EXCEPT ![w] = "upload_store"]
                /\ loc' = [loc EXCEPT ![w] =
                             [title |-> title, abstract |-> abstract,
                              category |-> category,
                              path |-> StoragePath(now, FileOf(form.pdf_file).filename),
                              file_bytes |-> FileOf(form.pdf_file).size,
                              mint |-> flag, doi |-> NoDoi, pid |-> 0]]
                /\ rsp' = NoRsp
        /\ UNCHANGED <<now, db, blobs, listed>>

\* outcomes of supabase.storage.from_(bucket).upload(...)
UploadOutcomes == {"stored", "raised", "error"}

\* the bucket refuses a path it already holds
Stored(outcome, path) == outcome = "stored" /\ path \notin blobs

\* a handler that goes on whatever the upload call did
UploadFailedUnnoticed(outcome, path) == FALSE

\* "except Exception" and "response.get('error')": the handler answers 500
UploadFailed(outcome, path) == ~Stored(outcome, path)

\* upload the bytes, then build the Preprint object
UploadStore(w) ==
    /\ pc[w] = "upload_store"
    /\ \E outcome \in UploadOutcomes :
         LET path == loc[w].path IN
         /\ blobs' = IF Stored(outcome, path) THEN blobs \cup {path} ELSE blobs
         /\ IF UploadFailed(outcome, path)
            THEN Reply(w, Err("upload", 500, UploadError))
            ELSE /\ pc' = [pc EXCEPT ![w] =
                             IF loc[w].mint THEN "upload_mint" ELSE "upload_commit"]
                 /\ loc' = [loc EXCEPT ![w].path = PublicUrl(path)]
                 /\ rsp' = NoRsp
    /\ UNCHANGED <<now, db, listed>>

\* "if mint_doi_flag: preprint.doi = generate_fake_doi()"
UploadMint(w) ==
    /\ pc[w] = "upload_mint"
    /\ pc' = [pc EXCEPT ![w] = "upload_commit"]
    /\ loc' = [loc EXCEPT ![w].doi = generate_fake_doi]
    /\ rsp' = NoRsp
    /\ UNCHANGED <<now, db, blobs, listed>>

\* the row INSERTed for a Preprint object; uploaded_at takes its column default
NewRow(l, at) ==
    [title |-> l.title, abstract |-> l.abstract, category |-> l.category,
     pdf_filename |-> l.path, uploaded_at |-> at, doi |-> l.doi]

\* a commit that, refused for a duplicate doi, numbers the row anew and
\* inserts it
UploadCommitRenumbers(w) ==
    /\ pc[w] = "upload_commit"
    /\ LET d == IF DoiUnique(loc[w].doi, 0)
                THEN loc[w].doi
                ELSE MakeDoi(loc[w].doi.ym, loc[w].doi.seq + 1)
       IN  /\ db' = Append(db, NewRow([loc[w] EXCEPT !.doi = d], now))
           /\ Reply(w, Rsp("upload", 201, Len(db) + 1, d))
    /\ UNCHANGED <<now, blobs, listed>>

\* db.session.add(preprint); db.session.commit()
UploadCommit(w) ==
    /\ pc[w] = "upload_commit"
    /\ IF DoiUnique(loc[w].doi, 0)
       THEN /\ db' = Append(db, NewRow(loc[w], now))
            /\ Reply(w, Rsp("upload", 201, Len(db) + 1, loc[w].doi))
       ELSE /\ db' = db
            /\ Reply(w, Err("upload", 500, IntegrityError))
    /\ UNCHANGED <<now, blobs, listed>>

\* ------------------------------------------------------------- mint_doi
\* a handler without the early return
HasDoiIgnored(row) == FALSE

\* "if preprint.doi": the loaded row already has an identifier
HasDoi(row) == row.doi # NoDoi

\* Preprint.query.get_or_404(pid), then the early return
MintBegin(w, pid) ==
    /\ Ready(w)
    /\ IF pid \notin Ids
       THEN Reply(w, Err("mint", 404, NotFound))
       ELSE IF HasDoi(db[pid])
            THEN Reply(w, Rsp("mint", 200, pid, db[pid].doi))
            ELSE /\ pc' = [pc EXCEPT ![w] = "mint_generate"]
                 /\ loc' = [loc EXCEPT ![w] = [NoLoc EXCEPT !.pid = pid]]
                 /\ rsp' = NoRsp
    /\ UNCHANGED <<now, db, blobs, listed>>

\* preprint.doi = generate_fake_doi()
MintGenerate(w) ==
    /\ pc[w] = "mint_generate"
    /\ pc' = [pc EXCEPT ![w] = "mint_commit"]
    /\ loc' = [loc EXCEPT ![w].doi = generate_fake_doi]
    /\ rsp' = NoRsp
    /\ UNCHANGED <<now, db, blobs, listed>>

\* db.session.commit(): UPDATE preprints SET doi = ... WHERE id = pid
MintCommit(w) ==
    /\ pc[w] = "mint_commit"
    /\ LET pid == loc[w].pid IN
       IF DoiUnique(loc[w].doi, pid)
       THEN /\ db' = [db EXCEPT ![pid].doi = loc[w].doi]
            /\ Reply(w, Rsp("mint", 201, pid, loc[w].doi))
       ELSE /\ db' = db
            /\ Reply(w, Err("mint", 500, IntegrityError))
    /\ UNCHANGED <<now, blobs, listed>>

\* ------------------------------------------------------------- specifications
Step(w) ==
    \/ UploadStore(w)
    \/ UploadMint(w)
    \/ UploadCommit(w)
    \/ MintGenerate(w)
    \/ MintCommit(w)

\* requests are handled concurrently by the workers
Next ==
    \/ Tick
    \/ \E w \in Workers : \E form \in Submissions : UploadBegin(w, form)
    \/ \E w \in Workers : \E pid \in Pids : MintBegin(w, pid)
    \/ \E w \in Workers : Step(w)

Spec == Init /\ [][Next]_vars

\* no request is in flight
Quiet == \A w \in Workers : Ready(w)

\* requests are issued one after another: a request starts only when no
\* other is in flight
NextSequential ==
    \/ Tick
    \/ \E w \in Workers : \E form \in Submissions : Quiet /\ UploadBegin(w, form)
    \/ \E w \in Workers : \E pid \in Pids : Quiet /\ MintBegin(w, pid)
    \/ \E w \in Workers : Step(w)

SpecSequential == Init /\ [][NextSequential]_vars

\* sequential requests, with every form of Forms submitted
NextForms ==
    \/ Tick
    \/ \E w \in Workers : \E form \in Forms : Quiet /\ UploadBegin(w, form)
    \/ \E w \in Workers : \E pid \in Pids : Quiet /\ MintBegin(w, pid)
    \/ \E w \in Workers : Step(w)

SpecForms == Init /\ [][NextForms]_vars

\* ------------------------------------------------------------- list_preprints
\* SQL LIKE: % matches any run of characters, _ any one character
RECURSIVE LikeMatch(_, _)
LikeMatch(pattern, text) ==
    IF pattern = <<>> THEN text = <<>>
    ELSE IF Head(pattern) = "%"
         THEN \/ LikeMatch(Tail(pattern), text)
              \/ text # <<>> /\ LikeMatch(pattern, Tail(text))
    ELSE IF Head(pattern) = "_"
         THEN text # <<>> /\ LikeMatch(Tail(pattern), Tail(text))
    ELSE text # <<>> /\ Head(text) = Head(pattern)
                     /\ LikeMatch(Tail(pattern), Tail(text))

\* column.ilike(pattern): lower(column) LIKE lower(pattern)
ILike(text, pattern) == LikeMatch(Lower(pattern), Lower(text))

\* Preprint.category == category
CategoryEquals(stored, category) == stored = category

\* the WHERE clause built from the two query parameters
Selected(row, q, category) ==
    /\ q # <<>> =>
         LET like == <<"%">> \o q \o <<"%">>
         IN  ILike(row.title, like) \/ ILike(row.abstract, like)
    /\ category # <<>> => CategoryEquals(row.category, category)

\* ORDER BY uploaded_at DESC over the given ids; equal timestamps in any order
Orderings(ids) ==
    {s \in [1..Cardinality(ids) -> ids] :
        /\ \A i, j \in DOMAIN s : i # j => s[i] # s[j]
        /\ \A i, j \in DOMAIN s : i < j => db[s[i]].uploaded_at >= db[s[j]].uploaded_at}

list_preprints(args) ==
    LET q        == Lower(Strip(FormGet(args.q, <<>>)))
        category == Lower(Strip(FormGet(args.category, <<>>)))
    IN  /\ listed' \in Orderings({i \in Ids : Selected(db[i], q, category)})
        /\ UNCHANGED <<now, db, blobs, pc, loc, rsp>>

\* query strings of GET /api/preprints/
ListArgs == [q : {{}, {<<" ">>}, {<<"A">>}, {<<"a","b">>}, {<<"s">>}},
             category : {{}, {<<"C","S">>}, {<<"c","s">>}, {<<"c","s"," ">>}}]

\* catalogs that uploads have filled: rows in commit order, each with its blob
ListTitles     == {<<"B","a">>, <<"c">>}
ListAbstracts  == {<<"a","b">>, <<"S">>}
ListCategories == {<<"C","S">>, <<"c","s">>, Uncategorized}

BlobOf(i, at) == StoragePath(at, [k \in 1..i |-> "p"])

CatalogRows(i) ==
    {[title |-> t, abstract |-> a, category |-> c,
      pdf_filename |-> PublicUrl(BlobOf(i, at)), uploaded_at |-> at, doi |-> NoDoi] :
        t \in ListTitles, a \in ListAbstracts, c \in ListCategories, at \in Times}

\* the catalogs of n rows: uploaded_at does not decrease along the ids
RECURSIVE Catalogs(_)
Catalogs(n) ==
    IF n = 0 THEN {<<>>}
    ELSE UNION {{Append(rows, row) :
                   row \in {r \in CatalogRows(n) :
                              n = 1 \/ rows[n - 1].uploaded_at <= r.uploaded_at}} :
                rows \in Catalogs(n - 1)}

InitList ==
    /\ now = MaxTime
    /\ db \in UNION {Catalogs(n) : n \in 1..MaxRecords}
    /\ blobs = {db[i].pdf_filename : i \in DOMAIN db}
    /\ pc = [w \in Workers |-> "idle"]
    /\ loc = [w \in Workers |-> NoLoc]
    /\ rsp = NoRsp
    /\ listed = <<>>

NextList == \E args \in ListArgs : list_preprints(args)

SpecList == InitList /\ [][NextList]_vars

\* ------------------------------------------------------------- properties
\* worker w returns from a commit step whose identifier another row holds
Collides(w) ==
    /\ pc[w] \in {"upload_commit", "mint_commit"}
    /\ pc'[w] = "idle"
    /\ loc[w].doi # NoDoi
    /\ \E i \in Ids : i # loc[w].pid /\ db[i].doi = loc[w].doi

\* blobs no row refers to
Orphans == blobs \ {db[i].pdf_filename : i \in Ids}

\* C1: in every reachable state of the catalog no two distinct rows hold the
\* same non-null doi, whatever the interleaving of uploads and mints.
UniqueDoi ==
    \A i, j \in Ids : i # j /\ db[i].doi # NoDoi => db[i].doi # db[j].doi

\* C1 witness: a write of an already-used doi has been refused while two
\* rows hold identifiers.
UniqueDoiWitness ==
    /\ rsp.error = IntegrityError
    /\ \E i, j \in Ids : i # j /\ db[i].doi # NoDoi /\ db[j].doi # NoDoi

\* C4: once a row's doi is non-null, no step changes it.
DoiNeverChanges ==
    [][\A i \in Ids : db[i].doi # NoDoi => db'[i].doi = db[i].doi]_vars

\* C6: every row, and every upload that got past the blob write, refers by
\* a non-empty locator to a blob the bucket holds; an upload whose blob
\* write failed never reaches the insert.
FileReferenceConsistent ==
    /\ \A i \in Ids : db[i].pdf_filename.name # <<>> /\ db[i].pdf_filename \in blobs
    /\ \A w \in Workers :
         pc[w] \in {"upload_mint", "upload_commit"} => loc[w].path \in blobs

\* C6 witness: a blob write has failed with the 500 answer and the catalog
\* holds a row.
FileReferenceWitness ==
    /\ rsp = Err("upload", 500, UploadError)
    /\ Len(db) >= 1

\* C9: the doi returned by an upload that minted carries the year-month of
\* the same row's uploaded_at.
DoiMonthIsUploadMonth ==
    rsp.op = "upload" /\ rsp.status = 201 /\ rsp.doi # NoDoi
        => rsp.doi.ym = Month(db[rsp.id].uploaded_at)

\* C10: a commit whose identifier another row already holds persists
\* nothing, deletes no blob and answers 500 without an identifier.
CollisionIsRejected ==
    [][\A w \in Workers :
         Collides(w) => /\ db' = db
                        /\ blobs' = blobs
                        /\ rsp'.status = 500
                        /\ rsp'.doi = NoDoi]_vars

\* C10 witness: an upload was refused for a duplicate doi that a mint on
\* another row persisted, and its blob is left behind in the bucket.
CollisionWitness ==
    /\ rsp = Err("upload", 500, IntegrityError)
    /\ Orphans # {}
    /\ \E i \in Ids : db[i].doi # NoDoi

\* sequence numbers of the identifiers of one month
SeqsOf(rows, ym) ==
    {rows[i].doi.seq : i \in {k \in 1..Len(rows) : rows[k].doi # NoDoi /\ rows[k].doi.ym = ym}}

\* row i receives an identifier in this step
Minted(i) == (i \notin Ids \/ db[i].doi = NoDoi) /\ db'[i].doi # NoDoi

\* C2: with requests issued one after another, each mint is numbered one
\* more than the identifiers its month already has, and the numbers of
\* every month are 1..n without gap or repeat.
SequentialNumbering ==
    [][\A i \in 1..Len(db') :
         Minted(i) =>
            /\ db'[i].doi.seq = CountMonth(db, db'[i].doi.ym) + 1
            /\ \A t \in Times :
                 SeqsOf(db', Month(t)) = 1..CountMonth(db', Month(t))]_vars

\* C2 witness: two rows carry the identifiers 1 and 2 of one month.
SequentialNumberingWitness ==
    \E i, j \in Ids :
        /\ db[i].doi # NoDoi /\ db[j].doi # NoDoi
        /\ db[i].doi.ym = db[j].doi.ym
        /\ db[i].doi.seq = 1 /\ db[j].doi.seq = 2

\* C3: with requests issued one after another, a mint on a row without
\* identifier persists one and answers 201 with it; from then on the row's
\* identifier stays, and every mint on the row answers 200 with that
\* identifier and leaves catalog and bucket as they are.
MintIdempotent ==
    [][\A w \in Workers : \A pid \in Pids :
         /\ pid \in Ids /\ db[pid].doi # NoDoi =>
              /\ db'[pid].doi = db[pid].doi
              /\ MintBegin(w, pid) =>
                   /\ rsp' = Rsp("mint", 200, pid, db[pid].doi)
                   /\ pc'[w] = "idle"
                   /\ db' = db /\ blobs' = blobs
         /\ pc[w] = "mint_commit" /\ pc'[w] = "idle" /\ loc[w].pid = pid =>
              /\ db[pid].doi = NoDoi
              /\ db'[pid].doi # NoDoi
              /\ rsp' = Rsp("mint", 201, pid, db'[pid].doi)
              /\ \A i \in Ids : i # pid => db'[i] = db[i]]_vars

\* C3 witness: a mint has answered 200 with the identifier of a row whose
\* identifier is of a later month than its upload, so that a mint call set it.
MintIdempotentWitness ==
    /\ rsp.op = "mint" /\ rsp.status = 200
    /\ rsp.id \in Ids
    /\ db[rsp.id].doi = rsp.doi
    /\ rsp.doi.ym > Month(db[rsp.id].uploaded_at)

\* text the request carries for a field, stripped; <<>> when absent
Given(field) == Strip(FormGet(field, <<>>))

\* C5: an upload answers 400, before writing a blob or inserting a row,
\* whenever title or abstract is absent or empty or the file is absent (no
\* part, or a part without filename) or has no bytes, and passes validation
\* otherwise.
SubmitValidation ==
    [][\A w \in Workers : \A form \in Forms :
         UploadBegin(w, form) =>
            IF \/ Given(form.title) = <<>>
               \/ Given(form.abstract) = <<>>
               \/ form.pdf_file = {}
               \/ FileOf(form.pdf_file).filename = <<>>
               \/ FileOf(form.pdf_file).size = 0
            THEN /\ rsp' = Err("upload", 400, MissingFields)
                 /\ pc'[w] = "idle"
                 /\ db' = db /\ blobs' = blobs
            ELSE pc'[w] = "upload_store"]_vars

\* C8: the row an upload builds has category "uncategorized" when the
\* category field is absent, empty or whitespace-only, and the submitted
\* category otherwise.
BlankCategoryDefaults ==
    [][\A w \in Workers : \A form \in Forms :
         UploadBegin(w, form) /\ pc'[w] = "upload_store" =>
            loc'[w].category = IF Given(form.category) = <<>>
                               THEN Uncategorized
                               ELSE FormGet(form.category, <<>>)]_vars

\* q is a substring of text
Contains(text, q) ==
    \E k \in 0..(Len(text) - Len(q)) : SubSeq(text, k + 1, k + Len(q)) = q

\* C7: list returns exactly the rows that satisfy both given filters: q a
\* substring of title or abstract, category equal to the stored category,
\* both compared without regard to case; an absent filter matches every row.
ListReturnsMatches ==
    [][\A args \in ListArgs :
         list_preprints(args) =>
            {listed'[k] : k \in DOMAIN listed'} =
               {i \in Ids :
                  /\ Given(args.q) # <<>> =>
                       \/ Contains(Lower(db[i].title), Lower(Given(args.q)))
                       \/ Contains(Lower(db[i].abstract), Lower(Given(args.q)))
                  /\ Given(args.category) # <<>> =>
                       Lower(db[i].category) = Lower(Given(args.category))}]_vars

=============================================================================
